---- MODULE Spec2Model ----
(***************************************************************************)
(* A model of rs_wavefront_obj_parser (src/src/lib.rs): parse_obj, the     *)
(* Display serializer of MeshOBJ and MeshOBJ::as_opengl_format.            *)
(*                                                                         *)
(* Text is a sequence of one-character strings.  A u32 is a pair           *)
(* <<hi, lo>> of 16-bit limbs (value hi * Limb + lo), so that the          *)
(* wrapping subtraction of a release build keeps its 32-bit width.  An     *)
(* f32 is a fixed-point integer counting 1/Unit; float literals are the    *)
(* decimal ones ([+-]digits[.digits]).                                     *)
(***************************************************************************)
EXTENDS Integers, Sequences, FiniteSets, TLC

VARIABLES
    src,                \* the text handed to parse_obj
    overflow_checks,    \* the build: TRUE panics on u32 overflow, FALSE wraps
    pc,                 \* position in the program
    objects_raw,        \* parse_obj: src split on "o "
    k,                  \* parse_obj: index of the chunk being parsed
    lines,              \* parser: the lines of the current chunk
    i,                  \* parser: index of the next line
    mesh,               \* parser: the MeshOBJ being filled
    next_index_offset,  \* parser: maximum raw index seen in this chunk
    last_index_offset,  \* parse_obj: offset handed to the current chunk
    object_buffer,      \* parse_obj: the MeshOBJ finished so far
    result,             \* what the call returned (or that it panicked)
    m,                  \* the MeshOBJ given to fmt / as_opengl_format
    scene               \* description of a generated two-object input

vars == << src, overflow_checks, pc, objects_raw, k, lines, i, mesh,
           next_index_offset, last_index_offset, object_buffer, result, m,
           scene >>

----------------------------------------------------------------------------
(* Constants of the source *)

COMMENT  == "#"
POSITION == <<"v">>
UV       == <<"v", "t">>
NORMAL   == <<"v", "n">>
INDEX    == <<"f">>

Limb == 65536
Unit == 10000

Whitespace == {" ", "\t"}
DigitChars == <<"0", "1", "2", "3", "4", "5", "6", "7", "8", "9">>

IsDigit(c) == \E d \in 1..10 : DigitChars[d] = c
DigitVal(c) == (CHOOSE d \in 1..10 : DigitChars[d] = c) - 1

----------------------------------------------------------------------------
(* str::split, str::split_whitespace, str::contains *)

Min(S) == CHOOSE x \in S : \A y \in S : x <= y

\* str::split( pat ): the pieces between the matches of pat, found left to
\* right without overlap
RECURSIVE split_from(_, _, _)
split_from(s, pat, st) ==
    LET found == { p \in st..(Len(s) - Len(pat) + 1) :
                     SubSeq(s, p, p + Len(pat) - 1) = pat }
    IN  IF found = {}
        THEN << SubSeq(s, st, Len(s)) >>
        ELSE << SubSeq(s, st, Min(found) - 1) >>
             \o split_from(s, pat, Min(found) + Len(pat))

split(s, pat) == split_from(s, pat, 1)

\* str::split_whitespace(): the maximal runs of non-whitespace characters
RECURSIVE split_whitespace_from(_, _)
split_whitespace_from(s, st) ==
    LET starts == { p \in st..Len(s) : s[p] \notin Whitespace }
    IN  IF starts = {}
        THEN <<>>
        ELSE LET a    == Min(starts)
                 stop == { p \in a..Len(s) : s[p] \in Whitespace }
                 b    == IF stop = {} THEN Len(s) ELSE Min(stop) - 1
             IN  << SubSeq(s, a, b) >> \o split_whitespace_from(s, b + 1)

split_whitespace(s) == split_whitespace_from(s, 1)

contains(s, c) == \E p \in 1..Len(s) : s[p] = c

----------------------------------------------------------------------------
(* u32 *)

U32Zero == << 0, 0 >>
U32(n) == << n \div Limb, n % Limb >>

U32Gt(a, b) == a[1] > b[1] \/ (a[1] = b[1] /\ a[2] > b[2])

\* a - b on u32: the wrapped difference and whether it overflowed
U32Sub(a, b) ==
    LET lo     == a[2] - b[2]
        borrow == IF lo < 0 THEN 1 ELSE 0
        hi     == a[1] - b[1] - borrow
    IN  [ overflow |-> hi < 0,
          val      |-> << IF hi < 0 THEN hi + Limb ELSE hi,
                          IF lo < 0 THEN lo + Limb ELSE lo >> ]

\* str::parse::<u32>: an optional '+', then decimal digits, read left to right
RECURSIVE parse_u32_from(_, _, _)
parse_u32_from(t, p, acc) ==
    IF p > Len(t)
    THEN [ ok |-> TRUE, val |-> acc, msg |-> "" ]
    ELSE IF ~IsDigit(t[p])
         THEN [ ok |-> FALSE, val |-> U32Zero,
                msg |-> "invalid digit found in string" ]
         ELSE LET lo == acc[2] * 10 + DigitVal(t[p])
                  hi == acc[1] * 10 + lo \div Limb
              IN  IF hi >= Limb
                  THEN [ ok |-> FALSE, val |-> U32Zero,
                         msg |-> "number too large to fit in target type" ]
                  ELSE parse_u32_from(t, p + 1, << hi, lo % Limb >>)

parse_u32(t) ==
    IF t = <<>>
    THEN [ ok |-> FALSE, val |-> U32Zero,
           msg |-> "cannot parse integer from empty string" ]
    ELSE LET body == IF t[1] = "+" THEN Tail(t) ELSE t
         IN  IF body = <<>>
             THEN [ ok |-> FALSE, val |-> U32Zero,
                    msg |-> "invalid digit found in string" ]
             ELSE parse_u32_from(body, 1, U32Zero)

----------------------------------------------------------------------------
(* f32 *)

RECURSIVE NatOf(_, _)
NatOf(ds, acc) ==
    IF ds = <<>> THEN acc ELSE NatOf(Tail(ds), acc * 10 + DigitVal(Head(ds)))

\* the first four decimals of a fraction, as a count of 1/Unit
FracOf(ds) ==
    LET d(j) == IF j <= Len(ds) THEN DigitVal(ds[j]) ELSE 0
    IN  d(1) * 1000 + d(2) * 100 + d(3) * 10 + d(4)

\* str::parse::<f32> on decimal literals
parse_f32(t) ==
    LET signed == t # <<>> /\ t[1] \in {"+", "-"}
        neg    == t # <<>> /\ t[1] = "-"
        body   == IF signed THEN Tail(t) ELSE t
        dots   == { p \in 1..Len(body) : body[p] = "." }
        dot    == IF dots = {} THEN Len(body) + 1
                  ELSE CHOOSE p \in dots : \A q \in dots : p <= q
        ip     == SubSeq(body, 1, dot - 1)
        fp     == SubSeq(body, dot + 1, Len(body))
        wellformed ==
            /\ \A p \in 1..Len(ip) : IsDigit(ip[p])
            /\ \A p \in 1..Len(fp) : IsDigit(fp[p])
            /\ Len(ip) + Len(fp) >= 1
        mag    == NatOf(ip, 0) * Unit + FracOf(fp)
    IN  IF t = <<>>
        THEN [ ok |-> FALSE, val |-> 0,
               msg |-> "cannot parse float from empty string" ]
        ELSE IF ~wellformed
             THEN [ ok |-> FALSE, val |-> 0, msg |-> "invalid float literal" ]
             ELSE [ ok |-> TRUE, val |-> IF neg THEN 0 - mag ELSE mag,
                    msg |-> "" ]

----------------------------------------------------------------------------
(* Error, MeshOBJ *)

NoError == [ kind |-> "None", msg |-> "" ]
ParseFloat(e)       == [ kind |-> "ParseFloat", msg |-> e ]
ParseInt(e)         == [ kind |-> "ParseInt", msg |-> e ]
PositionColorFormat == [ kind |-> "PositionColorFormat", msg |-> "" ]
UVFormat            == [ kind |-> "UVFormat", msg |-> "" ]
NormalFormat        == [ kind |-> "NormalFormat", msg |-> "" ]
FaceIndexFormat     == [ kind |-> "FaceIndexFormat", msg |-> "" ]

ErrorKinds == { "ParseFloat", "ParseInt", "PositionColorFormat", "UVFormat",
                "NormalFormat", "FaceIndexFormat" }

new_empty == [ positions |-> <<>>, normals |-> <<>>, uvs |-> <<>>,
               colors |-> <<>>, faces |-> <<>> ]

----------------------------------------------------------------------------
(* The parser closure of parse_obj, one line at a time *)

\* outcome of a step: it went on, returned an Err, or panicked
Went(me, nio)  == [ st |-> "ok", mesh |-> me, nio |-> nio, err |-> NoError ]
Failed(e)      == [ st |-> "err", mesh |-> new_empty,
                    nio |-> << U32Zero, U32Zero, U32Zero >>, err |-> e ]
Panicked(what) == [ st |-> "panic", mesh |-> new_empty,
                    nio |-> << U32Zero, U32Zero, U32Zero >>,
                    err |-> [ kind |-> "Panic", msg |-> what ] ]

RECURSIVE parse_floats_from(_, _, _)
parse_floats_from(symbols, p, res) ==
    IF p > Len(symbols)
    THEN [ ok |-> TRUE, val |-> res, err |-> NoError ]
    ELSE LET data == parse_f32(symbols[p])
         IN  IF ~data.ok
             THEN [ ok |-> FALSE, val |-> <<>>, err |-> ParseFloat(data.msg) ]
             ELSE parse_floats_from(symbols, p + 1, Append(res, data.val))

parse_floats(symbols) == parse_floats_from(symbols, 2, <<>>)

position_line(symbols, me, nio) ==
    LET r == parse_floats(symbols)
    IN  IF ~r.ok THEN Failed(r.err)
        ELSE IF Len(r.val) = 3
        THEN Went([ me EXCEPT !.positions =
                        Append(@, << r.val[1], r.val[2], r.val[3] >>) ], nio)
        ELSE IF Len(r.val) = 6
        THEN Went([ me EXCEPT
                      !.positions = Append(@, << r.val[1], r.val[2], r.val[3] >>),
                      !.colors    = Append(@, << r.val[4], r.val[5], r.val[6] >>) ],
                  nio)
        ELSE Failed(PositionColorFormat)

uv_line(symbols, me, nio) ==
    LET r == parse_floats(symbols)
    IN  IF ~r.ok THEN Failed(r.err)
        ELSE IF Len(r.val) = 2
        THEN Went([ me EXCEPT !.uvs = Append(@, << r.val[1], r.val[2] >>) ], nio)
        ELSE Failed(UVFormat)

normal_line(symbols, me, nio) ==
    LET r == parse_floats(symbols)
    IN  IF ~r.ok THEN Failed(r.err)
        ELSE IF Len(r.val) = 3
        THEN Went([ me EXCEPT !.normals =
                        Append(@, << r.val[1], r.val[2], r.val[3] >>) ], nio)
        ELSE Failed(NormalFormat)

\* the loop over the sub-symbols of one face-vertex token
RECURSIVE parse_sub_symbols(_, _, _)
parse_sub_symbols(sub_symbols, p, res) ==
    IF p > Len(sub_symbols)
    THEN [ ok |-> TRUE, val |-> res, err |-> NoError ]
    ELSE LET data == parse_u32(sub_symbols[p])
         IN  IF ~data.ok
             THEN [ ok |-> FALSE, val |-> <<>>, err |-> ParseInt(data.msg) ]
             ELSE parse_sub_symbols(sub_symbols, p + 1, Append(res, data.val))

max_index(cur, raw) == IF U32Gt(raw, cur) THEN raw ELSE cur

\* a plausible slip: the number of sub-tokens is checked before they are decoded
face_vertex_count_first(symbol) ==
    LET sub_symbols == split(symbol, << "/" >>)
    IN  IF Len(sub_symbols) # 3
        THEN [ ok |-> FALSE, val |-> <<>>, err |-> FaceIndexFormat ]
        ELSE parse_sub_symbols(sub_symbols, 1, <<>>)

\* one face-vertex token: its sub-tokens are decoded, then counted
face_vertex(symbol) ==
    LET r == parse_sub_symbols(split(symbol, << "/" >>), 1, <<>>)
    IN  IF ~r.ok THEN r
        ELSE IF Len(r.val) # 3
        THEN [ ok |-> FALSE, val |-> <<>>, err |-> FaceIndexFormat ]
        ELSE r

\* the loop over the face-vertex tokens of an f line
RECURSIVE index_line_from(_, _, _, _, _, _)
index_line_from(symbols, p, me, nio, index_offset, checks) ==
    IF p > Len(symbols)
    THEN Went(me, nio)
    ELSE LET r == face_vertex(symbols[p])
         IN  IF ~r.ok THEN Failed(r.err)
             ELSE LET nio2 == << max_index(nio[1], r.val[1]),
                                 max_index(nio[2], r.val[2]),
                                 max_index(nio[3], r.val[3]) >>
                      d1 == U32Sub(r.val[1], index_offset[1])
                      d2 == U32Sub(r.val[2], index_offset[2])
                      d3 == U32Sub(r.val[3], index_offset[3])
                  IN  IF checks /\ (d1.overflow \/ d2.overflow \/ d3.overflow)
                      THEN Panicked("attempt to subtract with overflow")
                      ELSE index_line_from(symbols, p + 1,
                               [ me EXCEPT !.faces =
                                     Append(@, << d1.val, d2.val, d3.val >>) ],
                               nio2, index_offset, checks)

index_line(symbols, me, nio, index_offset, checks) ==
    index_line_from(symbols, 2, me, nio, index_offset, checks)

\* a plausible slip: only a line that starts with the marker is a comment
parse_line_leading_comment(line, me, nio, index_offset, checks) ==
    IF line = <<>> THEN Went(me, nio)
    ELSE IF line[1] = COMMENT THEN Went(me, nio)
    ELSE LET symbols == split_whitespace(line)
         IN  IF symbols = <<>>
             THEN Panicked("index out of bounds")
             ELSE IF symbols[1] = POSITION THEN position_line(symbols, me, nio)
             ELSE IF symbols[1] = UV THEN uv_line(symbols, me, nio)
             ELSE IF symbols[1] = NORMAL THEN normal_line(symbols, me, nio)
             ELSE IF symbols[1] = INDEX
                  THEN index_line(symbols, me, nio, index_offset, checks)
             ELSE Went(me, nio)

\* the body of `for line in lines.iter()`
parse_line(line, me, nio, index_offset, checks) ==
    IF line = <<>> THEN Went(me, nio)
    ELSE IF contains(line, COMMENT) THEN Went(me, nio)
    ELSE LET symbols == split_whitespace(line)
         IN  IF symbols = <<>>
             THEN Panicked("index out of bounds")
             ELSE IF symbols[1] = POSITION THEN position_line(symbols, me, nio)
             ELSE IF symbols[1] = UV THEN uv_line(symbols, me, nio)
             ELSE IF symbols[1] = NORMAL THEN normal_line(symbols, me, nio)
             ELSE IF symbols[1] = INDEX
                  THEN index_line(symbols, me, nio, index_offset, checks)
             ELSE Went(me, nio)

----------------------------------------------------------------------------
(* MeshOBJ::as_opengl_format *)

InBounds(idx, len) == idx[1] = 0 /\ idx[2] < len

\* a plausible slip: the uv is pushed before the normal
push_vertex_uv_first(me, pos_i, uv_i, normal_i) ==
    me.positions[pos_i + 1] \o me.uvs[uv_i + 1] \o me.normals[normal_i + 1]

\* the eight floats pushed for one face entry
push_vertex(me, pos_i, uv_i, normal_i) ==
    me.positions[pos_i + 1] \o me.normals[normal_i + 1] \o me.uvs[uv_i + 1]

RECURSIVE as_opengl_format_from(_, _, _, _, _)
as_opengl_format_from(me, idx, vertices, mesh_indeces, checks) ==
    IF idx >= Len(me.faces)
    THEN [ kind |-> "Ok", val |-> << vertices, mesh_indeces >>, err |-> NoError ]
    ELSE LET index    == me.faces[idx + 1]
             pos_i    == U32Sub(index[1], U32(1))
             uv_i     == U32Sub(index[2], U32(1))
             normal_i == U32Sub(index[3], U32(1))
         IN  IF checks /\ (pos_i.overflow \/ uv_i.overflow \/ normal_i.overflow)
             THEN [ kind |-> "Panic", val |-> <<>>,
                    err |-> [ kind |-> "Panic",
                              msg |-> "attempt to subtract with overflow" ] ]
             ELSE IF ~( /\ InBounds(pos_i.val, Len(me.positions))
                        /\ InBounds(normal_i.val, Len(me.normals))
                        /\ InBounds(uv_i.val, Len(me.uvs)) )
             THEN [ kind |-> "Panic", val |-> <<>>,
                    err |-> [ kind |-> "Panic", msg |-> "index out of bounds" ] ]
             ELSE as_opengl_format_from(me, idx + 1,
                      vertices \o push_vertex(me, pos_i.val[2], uv_i.val[2],
                                              normal_i.val[2]),
                      Append(mesh_indeces, U32(idx)), checks)

as_opengl_format(me, checks) == as_opengl_format_from(me, 0, <<>>, <<>>, checks)

----------------------------------------------------------------------------
(* impl Display for MeshOBJ *)

RECURSIVE NatDigits(_)
NatDigits(n) ==
    IF n < 10 THEN << DigitChars[n + 1] >>
    ELSE Append(NatDigits(n \div 10), DigitChars[(n % 10) + 1])

\* decimal digits of a u32, by long division of its limbs by 10
RECURSIVE u32_to_string(_)
u32_to_string(a) ==
    LET t   == (a[1] % 10) * Limb + a[2]
        q   == << a[1] \div 10, t \div 10 >>
        rem == t % 10
    IN  IF q = U32Zero THEN << DigitChars[rem + 1] >>
        ELSE Append(u32_to_string(q), DigitChars[rem + 1])

RECURSIVE Spaces(_)
Spaces(n) == IF n <= 0 THEN <<>> ELSE << " " >> \o Spaces(n - 1)

\* right-aligned in a field of the given width, as {:w} does for numbers
PadLeft(s, width) == Spaces(width - Len(s)) \o s

\* {:7.3} of an f32: three decimals, ties to even
format_f32(v) ==
    LET mag  == IF v < 0 THEN 0 - v ELSE v
        q    == mag \div 10
        r    == mag % 10
        up   == r > 5 \/ (r = 5 /\ q % 2 = 1)
        th   == IF up THEN q + 1 ELSE q
        frac == th % 1000
        body == NatDigits(th \div 1000) \o << "." >>
                \o << DigitChars[(frac \div 100) + 1],
                      DigitChars[((frac \div 10) % 10) + 1],
                      DigitChars[(frac % 10) + 1] >>
    IN  PadLeft((IF v < 0 THEN << "-" >> ELSE <<>>) \o body, 7)

format_u32(a) == PadLeft(u32_to_string(a), 6)

RECURSIVE msg2(_)
msg2(vec) ==
    IF vec = <<>> THEN <<>>
    ELSE << "v", "t", " " >> \o format_f32(vec[1][1]) \o << " " >>
         \o format_f32(vec[1][2]) \o << " ", "\n" >> \o msg2(Tail(vec))

RECURSIVE msg3(_, _)
msg3(vec, kind) ==
    IF vec = <<>> THEN <<>>
    ELSE kind \o << " " >> \o format_f32(vec[1][1]) \o << " " >>
         \o format_f32(vec[1][2]) \o << " " >> \o format_f32(vec[1][3])
         \o << "\n" >> \o msg3(Tail(vec), kind)

RECURSIVE msg_u32_from(_, _)
msg_u32_from(vec, idx) ==
    IF idx >= Len(vec) THEN <<>>
    ELSE LET p == vec[idx + 1]
         IN  format_u32(p[1]) \o << "/" >> \o format_u32(p[2]) \o << "/" >>
             \o format_u32(p[3]) \o << " " >>
             \o (IF idx % 3 = 0 THEN << "\n", "f", " " >> ELSE <<>>)
             \o msg_u32_from(vec, idx + 1)

msg_u32(vec) == << "f", " " >> \o msg_u32_from(vec, 0)

fmt(me) ==
    LET colors_msg == IF me.colors = <<>> THEN <<>>
                      ELSE msg3(me.colors, << "c", "o", "l", "o", "r" >>)
    IN  msg3(me.positions, << "v" >>) \o msg2(me.uvs)
        \o msg3(me.normals, << "v", "n" >>) \o colors_msg \o msg_u32(me.faces)

----------------------------------------------------------------------------
(* Inputs *)

MaxLines == 3
MaxRec   == 2
MaxFaces == 2

\* lines a source text is made of: object directives, comments, blank and
\* whitespace-only lines, well-formed and malformed records
LineLib ==
    { <<"o", " ", "A">>,
      <<"o", " ", "f", "o", "o", " ", "b">>,
      <<"#", " ", "t", "o", " ", "d", "o">>,
      <<>>,
      <<" ">>,
      <<"v", " ", "1", " ", "2", " ", "3">>,
      <<"v", " ", "1", " ", "2", " ", "3", " ", "4", " ", "5", " ", "6">>,
      <<"v", " ", "1", ".", "0", " ", "2", ".", "0", " ", "#", "3", ".", "0">>,
      <<"v", " ", "1", " ", "x">>,
      <<"f", " ", "2", "/", "2", "/", "2">>,
      <<"f", " ", "2", "/", "2", "/", "2", " ", "1", "/", "a", "/", "2">>,
      <<"f", " ", "1", "/", "2">>,
      <<"f", " ", "a", "/", "2">>,
      <<"g", " ", "x">> }

\* further record lines, each tried alone in a one-object text
RecordLib ==
    { <<"v", " ", "1", " ", "2">>,
      <<"v", " ", "-", "1", ".", "5", " ", ".", "5", " ", "2", ".">>,
      <<"v", "t", " ", "0", ".", "5", " ", "1">>,
      <<"v", "t", " ", "1">>,
      <<"v", "t", " ", "1", " ", "y">>,
      <<"v", "n", " ", "0", " ", "0", " ", "1">>,
      <<"v", "n", " ", "1">>,
      <<"f", " ", "1", "/", "/", "2">>,
      <<"f", " ", "1", "/", "2", "/", "3", "/", "4">>,
      <<"f", " ", "+", "1", "/", "1", "/", "1", " ", "3", "/", "2", "/", "1">>,
      <<"f", " ", "4", "2", "9", "4", "9", "6", "7", "2", "9", "6", "/", "1", "/", "1">>,
      <<"f", " ", "4", "2", "9", "4", "9", "6", "7", "2", "9", "5", "/", "1", "/", "1">>,
      <<"\t", "f", "\t", "1", "/", "1", "/", "1">>,
      <<"v", "x", " ", "1", " ", "2", " ", "3">> }

RECURSIVE Join(_)
Join(ls) == IF ls = <<>> THEN <<>> ELSE Head(ls) \o << "\n" >> \o Join(Tail(ls))

Texts ==
    UNION { { Join(ls) : ls \in [ 1..n -> LineLib ] } : n \in 1..MaxLines }
    \cup { Join(<< << "o", " ", "A" >>, r >>) : r \in RecordLib }

\* A two-object file: object 1 declares c1[ch] records on channel ch and has
\* the face records f1; object 2 declares n2 records on every channel and one
\* face whose local index is l2 on every channel, written with file-global
\* indices (global) or with indices that restart at 1 (~global).
NoScene == [ c1 |-> << 0, 0, 0 >>, f1 |-> <<>>, n2 |-> 0, l2 |-> 0,
             global |-> FALSE ]

Triples(c) == (1..c[1]) \X (1..c[2]) \X (1..c[3])

Scenes ==
    { [ c1 |-> c, f1 |-> f, n2 |-> n, l2 |-> l, global |-> g ] :
        c \in (1..MaxRec) \X (1..MaxRec) \X (1..MaxRec),
        f \in { <<>> } \cup { << t >> : t \in (1..MaxRec) \X (1..MaxRec) \X (1..MaxRec) },
        n \in 1..MaxRec, l \in 1..MaxRec, g \in BOOLEAN }

WellFormedScene(sc) ==
    /\ \A j \in 1..Len(sc.f1) : sc.f1[j] \in Triples(sc.c1)
    /\ sc.l2 <= sc.n2

RECURSIVE RecordLines(_, _, _)
RecordLines(kw, zeros, n) ==
    IF n = 0 THEN <<>>
    ELSE Append(RecordLines(kw, zeros, n - 1),
                kw \o zeros \o << " " >> \o NatDigits(n))

FaceToken(t) ==
    NatDigits(t[1]) \o << "/" >> \o NatDigits(t[2]) \o << "/" >> \o NatDigits(t[3])

ObjectLines(name, c, fs) ==
    << << "o", " " >> \o name >>
    \o RecordLines(<< "v" >>, << " ", "0", " ", "0" >>, c[1])
    \o RecordLines(<< "v", "t" >>, << " ", "0" >>, c[2])
    \o RecordLines(<< "v", "n" >>, << " ", "0", " ", "0" >>, c[3])
    \o [ j \in 1..Len(fs) |-> << "f", " " >> \o FaceToken(fs[j]) ]

SceneText(sc) ==
    LET base(ch) == IF sc.global THEN sc.c1[ch] ELSE 0
        raw2     == << sc.l2 + base(1), sc.l2 + base(2), sc.l2 + base(3) >>
    IN  Join(ObjectLines(<< "A" >>, sc.c1, sc.f1)
             \o ObjectLines(<< "B" >>, << sc.n2, sc.n2, sc.n2 >>, << raw2 >>))

\* values of the MeshOBJ handed to fmt and as_opengl_format, in 1/Unit
Values == << 0, 15000, -20005, 12345, 15, 9996, -5, 70000 >>
ValueAt(n) == Values[(n % Len(Values)) + 1]

Vec3s(n, seed) ==
    [ j \in 1..n |-> << ValueAt(seed + 3 * j), ValueAt(seed + 3 * j + 1),
                        ValueAt(seed + 3 * j + 2) >> ]
Vec2s(n, seed) ==
    [ j \in 1..n |-> << ValueAt(seed + 2 * j), ValueAt(seed + 2 * j + 1) >> ]

\* face triples of a MeshOBJ with c records per channel: in range, and a few
\* out of range (0, and one past the end)
FaceChoices(c) ==
    { << 1, 1, 1 >>, << c[1], c[2], c[3] >>, << c[1] + 1, 1, 1 >>,
      << 1, 0, 1 >> }

MeshOf(c, wc, fs) ==
    [ positions |-> Vec3s(c[1], 0),
      normals   |-> Vec3s(c[3], 4),
      uvs       |-> Vec2s(c[2], 2),
      colors    |-> IF wc THEN Vec3s(c[1], 5) ELSE <<>>,
      faces     |-> [ j \in 1..Len(fs) |->
                        << U32(fs[j][1]), U32(fs[j][2]), U32(fs[j][3]) >> ] ]

Meshes ==
    UNION { { MeshOf(c, wc, fs) :
                wc \in BOOLEAN,
                fs \in UNION { [ 1..n -> FaceChoices(c) ] : n \in 0..MaxFaces } } :
            c \in (1..MaxRec) \X (1..MaxRec) \X (1..MaxRec) }

----------------------------------------------------------------------------
(* The program *)

NoResult    == [ kind |-> "None", val |-> <<>>, err |-> NoError ]
Ok(v)       == [ kind |-> "Ok", val |-> v, err |-> NoError ]
Err(e)      == [ kind |-> "Err", val |-> <<>>, err |-> e ]
Panic(e)    == [ kind |-> "Panic", val |-> <<>>, err |-> e ]
ZeroOffset  == << U32Zero, U32Zero, U32Zero >>

Idle ==
    /\ objects_raw = <<>>
    /\ k = 0
    /\ lines = <<>>
    /\ i = 0
    /\ mesh = new_empty
    /\ next_index_offset = ZeroOffset
    /\ last_index_offset = ZeroOffset
    /\ object_buffer = <<>>
    /\ result = NoResult

\* a call of parse_obj on a source text
Init ==
    /\ overflow_checks \in BOOLEAN
    /\ Idle
    /\ src \in Texts
    /\ scene = NoScene
    /\ m = new_empty
    /\ pc = "parse_obj"

\* a call of parse_obj on a generated two-object file
SceneInit ==
    /\ overflow_checks \in BOOLEAN
    /\ Idle
    /\ \E sc \in Scenes :
            WellFormedScene(sc) /\ scene = sc /\ src = SceneText(sc)
    /\ m = new_empty
    /\ pc = "parse_obj"

\* a call of as_opengl_format on a MeshOBJ
FlattenInit ==
    /\ overflow_checks \in BOOLEAN
    /\ Idle
    /\ m \in Meshes
    /\ pc = "as_opengl_format"
    /\ src = <<>>
    /\ scene = NoScene

\* a call of fmt on a MeshOBJ, whose text is then parsed
RoundTripInit ==
    /\ overflow_checks \in BOOLEAN
    /\ Idle
    /\ m \in Meshes
    /\ pc = "fmt"
    /\ src = <<>>
    /\ scene = NoScene

\* parse_obj up to its loop: split the text on "o ", skip the first chunk
Segment ==
    /\ pc = "parse_obj"
    /\ objects_raw' = split(src, << "o", " " >>)
    /\ object_buffer' = <<>>
    /\ last_index_offset' = ZeroOffset
    /\ k' = 2
    /\ pc' = "objects"
    /\ UNCHANGED << src, overflow_checks, lines, i, mesh, next_index_offset,
                    result, m, scene >>

\* the next chunk is split into lines and handed to the parser
BeginChunk ==
    /\ pc = "objects"
    /\ k <= Len(objects_raw)
    /\ lines' = split(objects_raw[k], << "\n" >>)
    /\ mesh' = new_empty
    /\ next_index_offset' = ZeroOffset
    /\ i' = 1
    /\ pc' = "lines"
    /\ UNCHANGED << src, overflow_checks, objects_raw, k, last_index_offset,
                    object_buffer, result, m, scene >>

\* a plausible slip: a line's Err is dropped and the next line is taken
ParseLine_swallow ==
    /\ pc = "lines"
    /\ i <= Len(lines)
    /\ LET r == parse_line(lines[i], mesh, next_index_offset,
                           last_index_offset, overflow_checks)
       IN  IF r.st = "ok"
           THEN /\ mesh' = r.mesh
                /\ next_index_offset' = r.nio
                /\ i' = i + 1
                /\ UNCHANGED << pc, result >>
           ELSE IF r.st = "err"
           THEN /\ i' = i + 1
                /\ UNCHANGED << mesh, next_index_offset, pc, result >>
           ELSE /\ result' = Panic(r.err)
                /\ pc' = "done"
                /\ UNCHANGED << mesh, next_index_offset, i >>
    /\ UNCHANGED << src, overflow_checks, objects_raw, k, lines,
                    last_index_offset, object_buffer, m, scene >>

\* the parser takes one line; an Err or a panic ends the call
ParseLine ==
    /\ pc = "lines"
    /\ i <= Len(lines)
    /\ LET r == parse_line(lines[i], mesh, next_index_offset,
                           last_index_offset, overflow_checks)
       IN  IF r.st = "ok"
           THEN /\ mesh' = r.mesh
                /\ next_index_offset' = r.nio
                /\ i' = i + 1
                /\ UNCHANGED << pc, result >>
           ELSE /\ result' = IF r.st = "err" THEN Err(r.err) ELSE Panic(r.err)
                /\ pc' = "done"
                /\ UNCHANGED << mesh, next_index_offset, i >>
    /\ UNCHANGED << src, overflow_checks, objects_raw, k, lines,
                    last_index_offset, object_buffer, m, scene >>

\* the parser returns: its offset becomes the next chunk's, its mesh is kept
EndChunk ==
    /\ pc = "lines"
    /\ i > Len(lines)
    /\ last_index_offset' = next_index_offset
    /\ object_buffer' = Append(object_buffer, mesh)
    /\ k' = k + 1
    /\ pc' = "objects"
    /\ UNCHANGED << src, overflow_checks, objects_raw, lines, i, mesh,
                    next_index_offset, result, m, scene >>

\* no chunk is left: Ok( object_buffer )
Return ==
    /\ pc = "objects"
    /\ k > Len(objects_raw)
    /\ result' = Ok(object_buffer)
    /\ pc' = "done"
    /\ UNCHANGED << src, overflow_checks, objects_raw, k, lines, i, mesh,
                    next_index_offset, last_index_offset, object_buffer, m,
                    scene >>

\* the text of m, prefixed with an object marker, is handed to parse_obj
Serialize ==
    /\ pc = "fmt"
    /\ src' = << "o", " ", "A", "\n" >> \o fmt(m)
    /\ pc' = "parse_obj"
    /\ UNCHANGED << overflow_checks, objects_raw, k, lines, i, mesh,
                    next_index_offset, last_index_offset, object_buffer,
                    result, m, scene >>

Flatten ==
    /\ pc = "as_opengl_format"
    /\ result' = as_opengl_format(m, overflow_checks)
    /\ pc' = "done"
    /\ UNCHANGED << src, overflow_checks, objects_raw, k, lines, i, mesh,
                    next_index_offset, last_index_offset, object_buffer, m,
                    scene >>

Next ==
    \/ Segment
    \/ BeginChunk
    \/ ParseLine
    \/ EndChunk
    \/ Return

RoundTripNext ==
    \/ Serialize
    \/ Next

Spec          == Init /\ [][Next]_vars
SceneSpec     == SceneInit /\ [][Next]_vars
FlattenSpec   == FlattenInit /\ [][Flatten]_vars
RoundTripSpec == RoundTripInit /\ [][RoundTripNext]_vars

----------------------------------------------------------------------------
(* Vocabulary of the properties *)

ChunkLines(c) == split(objects_raw[c], << "\n" >>)

\* the first whitespace-separated token of a line, <<>> when it has none
FirstToken(line) ==
    LET nz == { p \in 1..Len(line) : line[p] \notin Whitespace }
    IN  IF nz = {} THEN <<>>
        ELSE LET a  == Min(nz)
                 ws == { p \in a..Len(line) : line[p] \in Whitespace }
             IN  SubSeq(line, a, IF ws = {} THEN Len(line) ELSE Min(ws) - 1)

Keywords == { POSITION, UV, NORMAL, INDEX }

\* a line the parser is to skip: empty, holding the comment marker anywhere,
\* or led by a token that is no keyword
Skipped(line) ==
    \/ line = <<>>
    \/ contains(line, COMMENT)
    \/ (FirstToken(line) # <<>> /\ FirstToken(line) \notin Keywords)

\* a line that is a record of the given keyword
IsRecord(line, kw) ==
    line # <<>> /\ ~contains(line, COMMENT) /\ FirstToken(line) = kw

\* the tokens after the keyword
Fields(line) == Tail(split_whitespace(line))

IsU32Literal(t) == parse_u32(t).ok
IsF32Literal(t) == parse_f32(t).ok

\* the error of the first field that is no float literal
FloatError(toks) ==
    LET bad == { p \in 1..Len(toks) : ~IsF32Literal(toks[p]) }
    IN  IF bad = {} THEN NoError
        ELSE ParseFloat(parse_f32(toks[Min(bad)]).msg)

NonIntSubs(tok) ==
    LET subs == split(tok, << "/" >>)
    IN  { q \in 1..Len(subs) : ~IsU32Literal(subs[q]) }

\* the error of a face-vertex token: ParseInt of its first sub-token that is no
\* unsigned integer, otherwise FaceIndexFormat unless it has three sub-tokens
FaceTokenError(tok) ==
    LET subs == split(tok, << "/" >>)
    IN  IF NonIntSubs(tok) # {}
        THEN ParseInt(parse_u32(subs[Min(NonIntSubs(tok))]).msg)
        ELSE IF Len(subs) # 3 THEN FaceIndexFormat ELSE NoError

BadFaceTokens(line) ==
    { p \in 1..Len(Fields(line)) : FaceTokenError(Fields(line)[p]) # NoError }

\* the Err a line raises when the parser takes it (NoError: none)
LineError(line) ==
    IF line = <<>> \/ contains(line, COMMENT) \/ FirstToken(line) = <<>>
    THEN NoError
    ELSE LET kw   == FirstToken(line)
             toks == Fields(line)
         IN  IF kw \in { POSITION, UV, NORMAL }
             THEN IF FloatError(toks) # NoError THEN FloatError(toks)
                  ELSE IF kw = POSITION /\ Len(toks) \notin { 3, 6 }
                       THEN PositionColorFormat
                  ELSE IF kw = UV /\ Len(toks) # 2 THEN UVFormat
                  ELSE IF kw = NORMAL /\ Len(toks) # 3 THEN NormalFormat
                  ELSE NoError
             ELSE IF kw = INDEX /\ BadFaceTokens(line) # {}
                  THEN FaceTokenError(toks[Min(BadFaceTokens(line))])
             ELSE NoError

InRange(idx, len) == idx[1] = 0 /\ 1 <= idx[2] /\ idx[2] <= len

FacesInRange(me) ==
    \A j \in 1..Len(me.faces) :
        /\ InRange(me.faces[j][1], Len(me.positions))
        /\ InRange(me.faces[j][2], Len(me.uvs))
        /\ InRange(me.faces[j][3], Len(me.normals))

----------------------------------------------------------------------------
(* Properties *)

\* C1: in a successful parse of a two-object file whose object 2 uses
\* file-global face indices, every face of object 2 is in range of object 2's
\* own buffers and its local index i is the i-th record object 2 declared,
\* whatever object 1's faces reference.
C1_Object2IndicesLocal ==
    (pc = "done" /\ result.kind = "Ok" /\ scene.global) =>
        /\ Len(result.val) = 2
        /\ FacesInRange(result.val[2])
        /\ result.val[2].faces =
             << << U32(scene.l2), U32(scene.l2), U32(scene.l2) >> >>

\* C2: parse_obj always returns Ok or an Err of one of the six kinds; no input
\* makes it abort.
C2_Total ==
    pc = "done" =>
        \/ result.kind = "Ok"
        \/ (result.kind = "Err" /\ result.err.kind \in ErrorKinds)

IsDirective(line) ==
    Len(split_whitespace(line)) >= 2 /\ FirstToken(line) = << "o" >>

\* C4: a successful parse returns one MeshOBJ per `o <name>` line, in source
\* order, the k-th holding the records between the k-th directive and the next.
C4_OnePerDirective ==
    (pc = "done" /\ result.kind = "Ok") =>
        LET sl       == split(src, << "\n" >>)
            ds       == { p \in 1..Len(sl) : IsDirective(sl[p]) }
            nth(n)   == CHOOSE p \in ds : Cardinality({ q \in ds : q < p }) = n - 1
            upper(n) == IF n = Cardinality(ds) THEN Len(sl) + 1 ELSE nth(n + 1)
        IN  /\ Len(result.val) = Cardinality(ds)
            /\ \A n \in 1..Cardinality(ds) :
                 Len(result.val[n].positions) =
                   Cardinality({ p \in (nth(n) + 1)..(upper(n) - 1) :
                                   IsRecord(sl[p], POSITION) })

\* C5: in every MeshOBJ of a successful parse, colors is empty or as long as
\* positions.
C5_ColorsMatchPositions ==
    (pc = "done" /\ result.kind = "Ok") =>
        \A j \in 1..Len(result.val) :
            \/ result.val[j].colors = <<>>
            \/ Len(result.val[j].colors) = Len(result.val[j].positions)

WellFormedMesh(me) ==
    /\ me.colors = <<>> \/ Len(me.colors) = Len(me.positions)
    /\ FacesInRange(me)

Abs(x) == IF x < 0 THEN 0 - x ELSE x

\* equal lengths and order, values equal up to the three printed decimals
Close(parsed, given) ==
    /\ Len(parsed) = Len(given)
    /\ \A j \in 1..Len(given) :
         /\ Len(parsed[j]) = Len(given[j])
         /\ \A c \in 1..Len(given[j]) : 2 * Abs(parsed[j][c] - given[j][c]) * 1000 <= Unit

\* C8: the text of a well-formed MeshOBJ, after an object marker, parses to
\* exactly one MeshOBJ with the same positions, uvs and normals up to the
\* formatting.
C8_RoundTrip ==
    (pc = "done" /\ WellFormedMesh(m)) =>
        /\ result.kind = "Ok"
        /\ Len(result.val) = 1
        /\ Close(result.val[1].positions, m.positions)
        /\ Close(result.val[1].uvs, m.uvs)
        /\ Close(result.val[1].normals, m.normals)

\* the raw index triples of the face records of chunk c
RawTriple(tok) ==
    LET subs == split(tok, << "/" >>)
    IN  << parse_u32(subs[1]).val, parse_u32(subs[2]).val,
           parse_u32(subs[3]).val >>

RawTriples(c) ==
    UNION { { RawTriple(Fields(ChunkLines(c)[j])[p]) :
                p \in 1..Len(Fields(ChunkLines(c)[j])) } :
            j \in { j \in 1..Len(ChunkLines(c)) :
                      IsRecord(ChunkLines(c)[j], INDEX) } }

U32Max(S) ==
    IF S = {} THEN U32Zero ELSE CHOOSE x \in S : \A y \in S : ~U32Gt(y, x)

\* C10: the offset handed to chunk k is, on each channel, the maximum raw index
\* of the face records of all the chunks before it (zero for the first), so
\* the offset handed on never decreases.
C10_OffsetCumulative ==
    pc \in { "lines", "objects" } =>
        \A ch \in 1..3 :
            last_index_offset[ch] =
                U32Max(UNION { { t[ch] : t \in RawTriples(c) } : c \in 2..(k - 1) })

\* C3: an Err is the error of the first failing line in source order and of
\* its first failing token, it ends the call at once, and no MeshOBJ is
\* returned with it; a call that returns Ok met no failing line.
C3_FirstErrorAborts ==
    /\ result.kind = "Err" =>
         /\ pc = "done"
         /\ result.val = <<>>
         /\ result.err = LineError(lines[i])
         /\ \A j \in 1..(i - 1) : LineError(lines[j]) = NoError
         /\ \A c \in 2..(k - 1) : \A j \in 1..Len(ChunkLines(c)) :
                LineError(ChunkLines(c)[j]) = NoError
    /\ result.kind = "Ok" =>
         \A c \in 2..Len(objects_raw) : \A j \in 1..Len(ChunkLines(c)) :
            LineError(ChunkLines(c)[j]) = NoError
    /\ pc = "lines" =>
         \A j \in 1..(i - 1) : LineError(lines[j]) = NoError
    /\ pc = "done" => ~ENABLED Next

\* an Err of the first of two failing lines of a chunk, the second failing
\* otherwise
C3_Witness ==
    /\ result.kind = "Err"
    /\ \E j \in (i + 1)..Len(lines) :
          LineError(lines[j]) # NoError /\ LineError(lines[j]) # result.err

\* C6, as claimed: the first face-vertex token of an f line that is not three
\* unsigned integers fails with FaceIndexFormat when it does not split into
\* three sub-tokens, whatever they hold, and with ParseInt otherwise.
C6_CountDecides ==
    (result.kind = "Err" /\ IsRecord(lines[i], INDEX)) =>
        LET first == Fields(lines[i])[Min(BadFaceTokens(lines[i]))]
        IN  result.err.kind =
              IF Len(split(first, << "/" >>)) # 3 THEN "FaceIndexFormat"
              ELSE "ParseInt"

\* C6, amended: the first face-vertex token of an f line that is not three
\* unsigned integers fails, when the parser reaches it, with ParseInt if one
\* of its sub-tokens is no unsigned integer, however many they are, and with
\* FaceIndexFormat otherwise; tokens of three unsigned integers raise no Err.
C6_DecodeThenCount ==
    /\ (result.kind = "Err" /\ IsRecord(lines[i], INDEX)) =>
         /\ BadFaceTokens(lines[i]) # {}
         /\ LET first == Fields(lines[i])[Min(BadFaceTokens(lines[i]))]
            IN  result.err.kind =
                  IF NonIntSubs(first) # {} THEN "ParseInt"
                  ELSE "FaceIndexFormat"
    /\ pc = "lines" =>
         \A j \in 1..(i - 1) :
            IsRecord(lines[j], INDEX) => BadFaceTokens(lines[j]) = {}

\* a token of two sub-tokens, one no integer, has failed with ParseInt
C6_Witness ==
    /\ result.kind = "Err"
    /\ IsRecord(lines[i], INDEX)
    /\ result.err.kind = "ParseInt"
    /\ Len(split(Fields(lines[i])[Min(BadFaceTokens(lines[i]))], << "/" >>)) = 2

\* C7: taking a skipped line changes none of the buffers nor the running
\* maximum, raises nothing, and the parser goes on to the next line.
C7_SkippedLineFrame ==
    [][ (pc = "lines" /\ i <= Len(lines) /\ Skipped(lines[i])) =>
            /\ mesh' = mesh
            /\ next_index_offset' = next_index_offset
            /\ result' = result
            /\ pc' = "lines"
            /\ i' = i + 1 ]_vars

\* a `v` line holding the comment marker after data has been passed, the
\* buffers holding records
C7_Witness ==
    /\ pc = "lines"
    /\ i > 1
    /\ contains(lines[i - 1], COMMENT)
    /\ FirstToken(lines[i - 1]) = POSITION
    /\ mesh.positions # <<>>

\* C9: for a MeshOBJ with F in-range faces as_opengl_format returns 8 * F
\* floats, positions[p-1], normals[n-1], uvs[u-1] for each face in order, and
\* the indices 0 .. F-1; the MeshOBJ is unchanged.
C9_Flatten ==
    [][ (pc = "as_opengl_format" /\ FacesInRange(m)) =>
            /\ m' = m
            /\ result'.kind = "Ok"
            /\ Len(result'.val[1]) = 8 * Len(m.faces)
            /\ result'.val[2] = [ j \in 1..Len(m.faces) |-> U32(j - 1) ]
            /\ \A j \in 1..Len(m.faces) :
                 SubSeq(result'.val[1], 8 * (j - 1) + 1, 8 * j) =
                    m.positions[m.faces[j][1][2]]
                    \o m.normals[m.faces[j][3][2]]
                    \o m.uvs[m.faces[j][2][2]] ]_vars

\* a MeshOBJ of two faces that differ has been flattened
C9_Witness ==
    /\ pc = "done"
    /\ src = <<>>
    /\ result.kind = "Ok"
    /\ Len(m.faces) = 2
    /\ m.faces[1] # m.faces[2]
    /\ FacesInRange(m)

====
